---- MODULE Spec2Model ----
(***************************************************************************)
(* Model of dist-git's package import (dist_git/package_import.py).        *)
(*                                                                         *)
(* Every call of import_package is a process p.  A call walks through the  *)
(* statements of import_package; each external command (provisioning       *)
(* script, rpkg operation, git command) is a step whose outcome is chosen  *)
(* by the environment.  An exception that no handler of import_package     *)
(* catches sends the call to "raise" and from there out of the function    *)
(* ("failed"); the return statement sends it to "done".  When the call has *)
(* left the function its locals are gone; what stays is what the call did  *)
(* to the process and to the machine: the lock, the clone directory, the   *)
(* working directory, the remote repository.                               *)
(***************************************************************************)
EXTENDS Integers, Sequences, FiniteSets, TLC

\* Number of import_package calls that may run side by side.
NumCalls == 2

\* Longest list of branches a caller passes.
MaxBranches == 3

Procs == 1..NumCalls

\* Branch names; a caller passes a prefix of this list.
AllBranches == <<"A", "B", "C", "D", "E">>

BranchLists == { SubSeq(AllBranches, 1, n) : n \in 0..MaxBranches }

VARIABLES
    import_lock,     \* 0 when free, else the call that holds it
    pc,              \* position of each call in import_package
    branches,        \* the branches argument of each call
    i,               \* index of the branch being processed (both for-loops)
    branch_commits,  \* keys of branch_commits, in insertion order
    exc,             \* the exception a call is raising, and the statement it left
    repo_dir,        \* "none", "exists" or "removed": the mkdtemp directory
    cwd,             \* "oldpath" or "repo_dir": working directory of the process
    remoteRepo,      \* TRUE when the dist-git repository exists
    remoteBranches,  \* branches that exist in the dist-git repository
    hist             \* what a call has done so far (see NoHist)

\* The functions import_package calls are also modelled one by one, each
\* against the part of the machine it works on.
VARIABLES
    git,             \* the clone sync_branch runs in (see NoGit)
    sb,              \* sync_branch: arguments, position, locals (see NoSb)
    sg,              \* setup_git_repo: arguments, position (see NoSg)
    lookaside,       \* the lookaside cache: the files stored in it
    gid,             \* group id of the process
    up,              \* my_upload: arguments, position, locals (see NoUp)
    build            \* a Build of the frontend and what was read from it

importVars == <<import_lock, pc, branches, i, branch_commits, exc, repo_dir,
                cwd, remoteRepo, remoteBranches, hist>>

\* What import_package as modelled by its own steps leaves alone.
aux == <<git, sb, sg, lookaside, gid, up, build>>

vars == <<importVars, aux>>

----------------------------------------------------------------------------
\* Helpers

Range(s) == { s[k] : k \in 1..Len(s) }

\* What a call has done so far:
\*   lock          how import_lock.acquire ended: "none", "acquired", "timeout"
\*   pkg_name      pkg_info.name ("?" until get_pkg_info has run)
\*   did           the commands it ran that change a repository or the disk
\*   staged        branches whose content was staged directly (seed branches)
\*   synced        branches handed to sync_branch
\*   raised        branches skipped by the except clause of the content step
\*   commitFailed  seed branches whose commit failed though there was
\*                 something to commit
\*   pushed        branches on which commands.push() was called
\*   pushFailed    branches whose push failed
\*   recorded      branches that were entered into branch_commits
\*   checked_out   the branch the last commands.switch_branch checked out
NoHist == [lock |-> "none", pkg_name |-> "?", did |-> {}, staged |-> {},
           synced |-> {}, raised |-> {}, commitFailed |-> {}, pushed |-> {},
           pushFailed |-> {}, recorded |-> {}, checked_out |-> "-"]

NoExc == [type |-> "none", at |-> "-"]

branch(p) == branches[p][i[p]]

\* The call runs the command op.
Do(p, op) == [hist EXCEPT ![p].did = @ \cup {op}]

\* Exit codes of a provisioning script: "already exists" is reported as 128,
\* success as 0, anything else is a failure.
ProvisionExit(exists) == IF exists THEN {128, 1} ELSE {0, 1}

\* Where the for-loop over branches goes after the turn of branch k.
NextBranch(p, k) == IF k < Len(branches[p]) THEN "switch_branch" ELSE "chdir"

\* The continue statement, and the end of the loop body: on to the next branch.
Continue(p) ==
    /\ pc' = [pc EXCEPT ![p] = NextBranch(p, i[p])]
    /\ i' = [i EXCEPT ![p] = @ + 1]

\* Leaving a statement with an exception no handler catches.
RaiseExc(p, e) ==
    /\ pc' = [pc EXCEPT ![p] = "raise"]
    /\ exc' = [exc EXCEPT ![p] = [type |-> e, at |-> pc[p]]]

\* No clone: no commits, no branch heads, an empty index.
NoGit == [parent |-> <<>>, tree |-> <<>>, date |-> <<>>, head |-> <<>>,
          index |-> "-"]

\* sync_branch is not running.
NoSb == [pc |-> "idle", k |-> 0, branch_commits |-> <<>>, date |-> <<>>,
         log |-> <<>>, git0 |-> NoGit]

\* setup_git_repo is not running and has not been called.
NoSg == [pc |-> "idle", branches |-> <<>>, j |-> 0, calls |-> 0, log |-> <<>>,
         exc |-> "none", again |-> FALSE, succeeded |-> {},
         remote0 |-> [repo |-> FALSE, branches |-> {}]]

\* my_upload is not running and has not been called.
NoUp == [pc |-> "idle", destination |-> <<>>, calls |-> 0, current_gid |-> "-",
         gid0 |-> "-", again |-> FALSE, done |-> {},
         files0 |-> {}]

\* An empty lookaside cache: no directory, no file.  A file is a pair of its
\* path and the number of the my_upload call that wrote it (0 for a file
\* that a failed copy left behind).
NoLookaside == [dirs |-> {}, files |-> {}]

\* No Build is looked at.
NoBuild == [pc |-> "none", canceled |-> FALSE, build_chroots |-> <<>>,
            status |-> "-", cancelable |-> FALSE]

\* The state of the parts that only the single functions work on.
AuxIdle ==
    /\ git = NoGit
    /\ sb = NoSb
    /\ sg = NoSg
    /\ lookaside = NoLookaside
    /\ gid = "user"
    /\ up = NoUp
    /\ build = NoBuild

\* No call of import_package has been made.
ImportIdle ==
    /\ import_lock = 0
    /\ pc = [p \in Procs |-> "idle"]
    /\ branches = [p \in Procs |-> <<>>]
    /\ i = [p \in Procs |-> 0]
    /\ branch_commits = [p \in Procs |-> <<>>]
    /\ exc = [p \in Procs |-> NoExc]
    /\ repo_dir = [p \in Procs |-> "none"]
    /\ cwd = [p \in Procs |-> "oldpath"]
    /\ remoteRepo = FALSE
    /\ remoteBranches = {}
    /\ hist = [p \in Procs |-> NoHist]

----------------------------------------------------------------------------
Init ==
    /\ ImportIdle
    /\ AuxIdle

\* A caller invokes import_package(opts, namespace, branches, package_content).
Call(p) ==
    /\ pc[p] = "idle"
    /\ \E brs \in BranchLists : branches' = [branches EXCEPT ![p] = brs]
    /\ pc' = [pc EXCEPT ![p] = "acquire"]
    /\ UNCHANGED <<import_lock, i, branch_commits, exc, repo_dir, cwd,
                   remoteRepo, remoteBranches, hist>>
    /\ UNCHANGED aux

\* Mutant of Acquire: the call goes on whether or not the lock was free.
Acquire_NoCheck(p) ==
    /\ pc[p] = "acquire"
    /\ import_lock' = p
    /\ pc' = [pc EXCEPT ![p] = "get_pkg_info"]
    /\ hist' = [hist EXCEPT ![p].lock = "acquired"]
    /\ UNCHANGED <<branches, i, branch_commits, exc, repo_dir, cwd,
                   remoteRepo, remoteBranches>>
    /\ UNCHANGED aux

\* import_lock.acquire(timeout=120) returns True.
Acquire(p) ==
    /\ pc[p] = "acquire"
    /\ import_lock = 0
    /\ import_lock' = p
    /\ pc' = [pc EXCEPT ![p] = "get_pkg_info"]
    /\ hist' = [hist EXCEPT ![p].lock = "acquired"]
    /\ UNCHANGED <<branches, i, branch_commits, exc, repo_dir, cwd,
                   remoteRepo, remoteBranches>>
    /\ UNCHANGED aux

\* Mutant of AcquireTimeout: the result of acquire is not tested and the
\* call goes on without the lock.
AcquireTimeout_NoRaise(p) ==
    /\ pc[p] = "acquire"
    /\ import_lock # 0
    /\ hist' = [hist EXCEPT ![p].lock = "timeout"]
    /\ pc' = [pc EXCEPT ![p] = "get_pkg_info"]
    /\ UNCHANGED <<import_lock, branches, i, branch_commits, exc, repo_dir, cwd,
                   remoteRepo, remoteBranches>>
    /\ UNCHANGED aux

\* import_lock.acquire(timeout=120) returns False: the lock stayed held for
\* the whole timeout.
AcquireTimeout(p) ==
    /\ pc[p] = "acquire"
    /\ import_lock # 0
    /\ hist' = [hist EXCEPT ![p].lock = "timeout"]
    /\ RaiseExc(p, "PackageImportException")
    /\ UNCHANGED <<import_lock, branches, i, branch_commits, repo_dir, cwd,
                   remoteRepo, remoteBranches>>
    /\ UNCHANGED aux

\* Mutant of GetPkgInfo: pkg_info.name is not tested.
GetPkgInfo_NoCheck(p) ==
    /\ pc[p] = "get_pkg_info"
    /\ \E name \in {"", "pkg"} : hist' = [hist EXCEPT ![p].pkg_name = name]
    /\ pc' = [pc EXCEPT ![p] = "setup_git_package"]
    /\ UNCHANGED <<import_lock, branches, i, branch_commits, exc, repo_dir, cwd,
                   remoteRepo, remoteBranches>>
    /\ UNCHANGED aux

\* helpers.get_pkg_info and the test of pkg_info.name.
GetPkgInfo(p) ==
    /\ pc[p] = "get_pkg_info"
    /\ \E name \in {"", "pkg"} :
          /\ hist' = [hist EXCEPT ![p].pkg_name = name]
          /\ IF name = ""
             THEN RaiseExc(p, "PackageImportException")
             ELSE /\ pc' = [pc EXCEPT ![p] = "setup_git_package"]
                  /\ exc' = exc
    /\ UNCHANGED <<import_lock, branches, i, branch_commits, repo_dir, cwd,
                   remoteRepo, remoteBranches>>
    /\ UNCHANGED aux

\* setup_git_repo, first command: /usr/share/dist-git/setup_git_package.
SetupGitPackage(p) ==
    /\ pc[p] = "setup_git_package"
    /\ hist' = Do(p, "setup_git_package")
    /\ \E rc \in ProvisionExit(remoteRepo) :
          /\ remoteRepo' = (remoteRepo \/ rc = 0)
          /\ IF rc \in {0, 128}
             THEN /\ pc' = [pc EXCEPT ![p] =
                               IF Len(branches[p]) > 0 THEN "mkbranch" ELSE "clone"]
                  /\ i' = [i EXCEPT ![p] = 1]
                  /\ exc' = exc
             ELSE /\ RaiseExc(p, "PackageImportException")
                  /\ i' = i
    /\ UNCHANGED <<import_lock, branches, branch_commits, repo_dir, cwd,
                   remoteBranches>>
    /\ UNCHANGED aux

\* Mutant of MkBranch: the exit code of mkbranch is logged and otherwise
\* ignored.
MkBranch_IgnoreFailure(p) ==
    /\ pc[p] = "mkbranch"
    /\ hist' = Do(p, "mkbranch")
    /\ \E rc \in ProvisionExit(branch(p) \in remoteBranches) :
          remoteBranches' = IF rc = 0 THEN remoteBranches \cup {branch(p)}
                                      ELSE remoteBranches
    /\ pc' = [pc EXCEPT ![p] =
                 IF i[p] < Len(branches[p]) THEN "mkbranch" ELSE "clone"]
    /\ i' = [i EXCEPT ![p] = @ + 1]
    /\ UNCHANGED <<import_lock, branches, branch_commits, exc, repo_dir, cwd,
                   remoteRepo>>
    /\ UNCHANGED aux

\* setup_git_repo, one turn of the loop: /usr/share/dist-git/mkbranch.
MkBranch(p) ==
    /\ pc[p] = "mkbranch"
    /\ hist' = Do(p, "mkbranch")
    /\ \E rc \in ProvisionExit(branch(p) \in remoteBranches) :
          /\ remoteBranches' = IF rc = 0 THEN remoteBranches \cup {branch(p)}
                                         ELSE remoteBranches
          /\ IF rc \in {0, 128}
             THEN /\ pc' = [pc EXCEPT ![p] =
                               IF i[p] < Len(branches[p]) THEN "mkbranch" ELSE "clone"]
                  /\ i' = [i EXCEPT ![p] = @ + 1]
                  /\ exc' = exc
             ELSE /\ RaiseExc(p, "PackageImportException")
                  /\ i' = i
    /\ UNCHANGED <<import_lock, branches, branch_commits, repo_dir, cwd,
                   remoteRepo>>
    /\ UNCHANGED aux

\* tempfile.mkdtemp, the rpkg Commands object and commands.clone.
Clone(p) ==
    /\ pc[p] = "clone"
    /\ repo_dir' = [repo_dir EXCEPT ![p] = "exists"]
    /\ hist' = [hist EXCEPT ![p].did = @ \cup {"mkdtemp", "clone"}]
    /\ \E ok \in BOOLEAN :
          IF ok
          THEN /\ pc' = [pc EXCEPT ![p] = "git_config"]
               /\ exc' = exc
          ELSE RaiseExc(p, "PackageImportException")
    /\ UNCHANGED <<import_lock, branches, i, branch_commits, cwd,
                   remoteRepo, remoteBranches>>
    /\ UNCHANGED aux

\* helpers.run_cmd returns the result of a command that exits with 0 and
\* raises RunCommandException for one that does not.
RunCmdOutcomes == {"ok", "RunCommandException"}

\* os.chdir(repo_dir) and the two git config commands; then the loop starts.
GitConfig(p) ==
    /\ pc[p] = "git_config"
    /\ cwd' = [cwd EXCEPT ![p] = "repo_dir"]
    /\ branch_commits' = [branch_commits EXCEPT ![p] = <<>>]
    /\ \E res \in RunCmdOutcomes :
          IF res = "ok"
          THEN /\ pc' = [pc EXCEPT ![p] = NextBranch(p, 0)]
               /\ i' = [i EXCEPT ![p] = 1]
               /\ exc' = exc
          ELSE /\ RaiseExc(p, "RunCommandException")
               /\ i' = i
    /\ UNCHANGED <<import_lock, branches, repo_dir, remoteRepo, remoteBranches, hist>>
    /\ UNCHANGED aux

\* Mutant of SwitchBranch: the test of branch_commits is lost and every
\* branch is staged directly.
SwitchBranch_AlwaysStage(p) ==
    /\ pc[p] = "switch_branch"
    /\ \E ok \in BOOLEAN :
          IF ok
          THEN /\ pc' = [pc EXCEPT ![p] = "add_content"]
               /\ exc' = exc
               /\ hist' = [hist EXCEPT ![p].checked_out = branch(p)]
          ELSE /\ RaiseExc(p, "rpkgError")
               /\ hist' = hist
    /\ UNCHANGED <<import_lock, branches, i, branch_commits, repo_dir, cwd,
                   remoteRepo, remoteBranches>>
    /\ UNCHANGED aux

\* Mutant of SwitchBranch: the test of branch_commits is inverted.
SwitchBranch_TestInverted(p) ==
    /\ pc[p] = "switch_branch"
    /\ \E ok \in BOOLEAN :
          IF ok
          THEN /\ pc' = [pc EXCEPT ![p] =
                            IF branch_commits[p] # <<>> THEN "add_content"
                                                        ELSE "sync_branch"]
               /\ exc' = exc
               /\ hist' = [hist EXCEPT ![p].checked_out = branch(p)]
          ELSE /\ RaiseExc(p, "rpkgError")
               /\ hist' = hist
    /\ UNCHANGED <<import_lock, branches, i, branch_commits, repo_dir, cwd,
                   remoteRepo, remoteBranches>>
    /\ UNCHANGED aux

\* commands.switch_branch(branch), outside of any try block.
SwitchBranch(p) ==
    /\ pc[p] = "switch_branch"
    /\ \E ok \in BOOLEAN :
          IF ok
          THEN /\ pc' = [pc EXCEPT ![p] =
                            IF branch_commits[p] = <<>> THEN "add_content"
                                                        ELSE "sync_branch"]
               /\ exc' = exc
               /\ hist' = [hist EXCEPT ![p].checked_out = branch(p)]
          ELSE /\ RaiseExc(p, "rpkgError")
               /\ hist' = hist
    /\ UNCHANGED <<import_lock, branches, i, branch_commits, repo_dir, cwd,
                   remoteRepo, remoteBranches>>
    /\ UNCHANGED aux

\* The except clause of the content step: log, and continue with the next branch.
SkipBranch(p) ==
    /\ hist' = [hist EXCEPT ![p].raised = @ \cup {branch(p)},
                            ![p].staged = IF pc[p] = "add_content"
                                          THEN @ \cup {branch(p)} ELSE @,
                            ![p].synced = IF pc[p] = "sync_branch"
                                          THEN @ \cup {branch(p)} ELSE @]
    /\ Continue(p)

\* Seed branch: copy the spec file and the extra content, add them to the index.
AddContent(p) ==
    /\ pc[p] = "add_content"
    /\ \E ok \in BOOLEAN :
          IF ok
          THEN /\ hist' = [hist EXCEPT ![p].staged = @ \cup {branch(p)}]
               /\ pc' = [pc EXCEPT ![p] = "upload"]
               /\ i' = i
          ELSE SkipBranch(p)
    /\ UNCHANGED <<import_lock, branches, branch_commits, exc, repo_dir, cwd,
                   remoteRepo, remoteBranches>>
    /\ UNCHANGED aux

\* Seed branch: commands.upload(package_content.source_paths, replace=True).
Upload(p) ==
    /\ pc[p] = "upload"
    /\ \E ok \in BOOLEAN :
          IF ok
          THEN /\ hist' = Do(p, "upload")
               /\ pc' = [pc EXCEPT ![p] = "commit"]
               /\ i' = i
          ELSE SkipBranch(p)
    /\ UNCHANGED <<import_lock, branches, branch_commits, exc, repo_dir, cwd,
                   remoteRepo, remoteBranches>>
    /\ UNCHANGED aux

\* How commands.commit(message) can end: a commit, or rpkgError because git
\* had nothing to commit, or rpkgError because git commit failed otherwise.
CommitOutcomes == {"ok", "nothing_to_commit", "failed"}

\* Seed branch: commands.commit(message) inside try/except rpkgError.
Commit(p) ==
    /\ pc[p] = "commit"
    /\ \E res \in CommitOutcomes :
          hist' = [hist EXCEPT ![p].did = @ \cup {"commit"},
                               ![p].commitFailed = IF res = "failed"
                                                   THEN @ \cup {branch(p)} ELSE @]
    /\ pc' = [pc EXCEPT ![p] = "push"]
    /\ UNCHANGED <<import_lock, branches, i, branch_commits, exc, repo_dir, cwd,
                   remoteRepo, remoteBranches>>
    /\ UNCHANGED aux

\* How sync_branch can end: a fast-forward merge, the reset with a commit,
\* the reset with nothing to commit, or an exception of one of its commands.
SyncOutcomes == {"fast_forward", "reset_commit", "reset_nothing", "raised"}

\* Follower branch: sync_branch(branch, branch_commits, message).
SyncBranch(p) ==
    /\ pc[p] = "sync_branch"
    /\ \E res \in SyncOutcomes :
          IF res = "raised"
          THEN SkipBranch(p)
          ELSE /\ hist' = [hist EXCEPT ![p].synced = @ \cup {branch(p)},
                                       ![p].did = IF res = "reset_commit"
                                                  THEN @ \cup {"commit"} ELSE @]
               /\ pc' = [pc EXCEPT ![p] = "push"]
               /\ i' = i
    /\ UNCHANGED <<import_lock, branches, branch_commits, exc, repo_dir, cwd,
                   remoteRepo, remoteBranches>>
    /\ UNCHANGED aux

\* Mutant of Push: the rpkgError of a failed push is not caught.
Push_Uncaught(p) ==
    /\ pc[p] = "push"
    /\ \E ok \in BOOLEAN :
          /\ hist' = [hist EXCEPT ![p].did = @ \cup {"push"},
                                  ![p].pushed = @ \cup {branch(p)},
                                  ![p].pushFailed = IF ok THEN @
                                                    ELSE @ \cup {branch(p)}]
          /\ IF ok
             THEN /\ pc' = [pc EXCEPT ![p] = "load_commit"]
                  /\ exc' = exc
             ELSE RaiseExc(p, "rpkgError")
    /\ UNCHANGED <<import_lock, branches, i, branch_commits, repo_dir, cwd,
                   remoteRepo, remoteBranches>>
    /\ UNCHANGED aux

\* commands.push() inside try/except rpkgError.
Push(p) ==
    /\ pc[p] = "push"
    /\ \E ok \in BOOLEAN :
          IF ok
          THEN /\ hist' = [hist EXCEPT ![p].did = @ \cup {"push"},
                                       ![p].pushed = @ \cup {branch(p)}]
               /\ pc' = [pc EXCEPT ![p] = "load_commit"]
               /\ i' = i
          ELSE /\ hist' = [hist EXCEPT ![p].did = @ \cup {"push"},
                                       ![p].pushed = @ \cup {branch(p)},
                                       ![p].pushFailed = @ \cup {branch(p)}]
               /\ Continue(p)
    /\ UNCHANGED <<import_lock, branches, branch_commits, exc, repo_dir, cwd,
                   remoteRepo, remoteBranches>>
    /\ UNCHANGED aux

\* Mutant of LoadCommit: branch_commits is built anew with this branch only.
LoadCommit_StartOver(p) ==
    /\ pc[p] = "load_commit"
    /\ \E ok \in BOOLEAN :
          IF ok
          THEN /\ branch_commits' = [branch_commits EXCEPT ![p] = <<branch(p)>>]
               /\ hist' = [hist EXCEPT ![p].recorded = @ \cup {branch(p)}]
               /\ Continue(p)
               /\ exc' = exc
          ELSE /\ RaiseExc(p, "rpkgError")
               /\ UNCHANGED <<i, branch_commits, hist>>
    /\ UNCHANGED <<import_lock, branches, repo_dir, cwd, remoteRepo,
                   remoteBranches>>
    /\ UNCHANGED aux

\* commands.load_commit() and branch_commits[branch] = commands.commithash.
LoadCommit(p) ==
    /\ pc[p] = "load_commit"
    /\ \E ok \in BOOLEAN :
          IF ok
          THEN /\ branch_commits' = [branch_commits EXCEPT ![p] =
                                        IF branch(p) \in Range(@) THEN @
                                        ELSE Append(@, branch(p))]
               /\ hist' = [hist EXCEPT ![p].recorded = @ \cup {branch(p)}]
               /\ Continue(p)
               /\ exc' = exc
          ELSE /\ RaiseExc(p, "rpkgError")
               /\ UNCHANGED <<i, branch_commits, hist>>
    /\ UNCHANGED <<import_lock, branches, repo_dir, cwd, remoteRepo,
                   remoteBranches>>
    /\ UNCHANGED aux

\* Mutant of Chdir: the working directory stays where it is.
Chdir_NoRestore(p) ==
    /\ pc[p] = "chdir"
    /\ pc' = [pc EXCEPT ![p] = "rmtree"]
    /\ UNCHANGED <<import_lock, branches, i, branch_commits, exc, repo_dir, cwd,
                   remoteRepo, remoteBranches, hist>>
    /\ UNCHANGED aux

\* os.chdir(oldpath)
Chdir(p) ==
    /\ pc[p] = "chdir"
    /\ cwd' = [cwd EXCEPT ![p] = "oldpath"]
    /\ pc' = [pc EXCEPT ![p] = "rmtree"]
    /\ UNCHANGED <<import_lock, branches, i, branch_commits, exc, repo_dir,
                   remoteRepo, remoteBranches, hist>>
    /\ UNCHANGED aux

\* shutil.rmtree(repo_dir)
Rmtree(p) ==
    /\ pc[p] = "rmtree"
    /\ repo_dir' = [repo_dir EXCEPT ![p] = "removed"]
    /\ pc' = [pc EXCEPT ![p] = "refresh_cgit_listing"]
    /\ UNCHANGED <<import_lock, branches, i, branch_commits, exc, cwd,
                   remoteRepo, remoteBranches, hist>>
    /\ UNCHANGED aux

\* How subprocess.check_output(cmd) can end in refresh_cgit_listing: the
\* command exits with 0, it exits with another code (CalledProcessError), or
\* it cannot be started at all (OSError: no such file, not executable).
RefreshOutcomes == {"ok", "CalledProcessError", "OSError"}

\* refresh_cgit_listing(opts): the except clause names CalledProcessError
\* only; that one is logged and dropped, any other exception goes through.
RefreshCgitListing(p) ==
    /\ pc[p] = "refresh_cgit_listing"
    /\ hist' = Do(p, "cgit_pkg_list")
    /\ \E res \in RefreshOutcomes :
          IF res \in {"ok", "CalledProcessError"}
          THEN /\ pc' = [pc EXCEPT ![p] = "release"]
               /\ exc' = exc
          ELSE RaiseExc(p, res)
    /\ UNCHANGED <<import_lock, branches, i, branch_commits, repo_dir, cwd,
                   remoteRepo, remoteBranches>>
    /\ UNCHANGED aux

\* import_lock.release() and return munch.Munch(...): the call is over and
\* its locals are gone.
ReleaseAndReturn(p) ==
    /\ pc[p] = "release"
    /\ import_lock' = 0
    /\ pc' = [pc EXCEPT ![p] = "done"]
    /\ branches' = [branches EXCEPT ![p] = <<>>]
    /\ i' = [i EXCEPT ![p] = 0]
    /\ branch_commits' = [branch_commits EXCEPT ![p] = <<>>]
    /\ hist' = [hist EXCEPT ![p] = NoHist]
    /\ UNCHANGED <<exc, repo_dir, cwd, remoteRepo, remoteBranches>>
    /\ UNCHANGED aux

\* Mutant of Propagate: a failing call takes back what it provisioned.
Propagate_RollBack(p) ==
    /\ pc[p] = "raise"
    /\ pc' = [pc EXCEPT ![p] = "failed"]
    /\ branches' = [branches EXCEPT ![p] = <<>>]
    /\ i' = [i EXCEPT ![p] = 0]
    /\ branch_commits' = [branch_commits EXCEPT ![p] = <<>>]
    /\ hist' = [hist EXCEPT ![p] = NoHist]
    /\ exc' = [exc EXCEPT ![p].at = "-"]
    /\ remoteBranches' = remoteBranches \ Range(branches[p])
    /\ UNCHANGED <<import_lock, repo_dir, cwd, remoteRepo>>
    /\ UNCHANGED aux

\* The exception leaves import_package: the frame and its locals are gone,
\* the caller is left with the exception.
Propagate(p) ==
    /\ pc[p] = "raise"
    /\ pc' = [pc EXCEPT ![p] = "failed"]
    /\ branches' = [branches EXCEPT ![p] = <<>>]
    /\ i' = [i EXCEPT ![p] = 0]
    /\ branch_commits' = [branch_commits EXCEPT ![p] = <<>>]
    /\ hist' = [hist EXCEPT ![p] = NoHist]
    /\ exc' = [exc EXCEPT ![p].at = "-"]
    /\ UNCHANGED <<import_lock, repo_dir, cwd, remoteRepo, remoteBranches>>
    /\ UNCHANGED aux

Next == \E p \in Procs :
    \/ Call(p)
    \/ Acquire(p)
    \/ AcquireTimeout(p)
    \/ GetPkgInfo(p)
    \/ SetupGitPackage(p)
    \/ MkBranch(p)
    \/ Clone(p)
    \/ GitConfig(p)
    \/ SwitchBranch(p)
    \/ AddContent(p)
    \/ Upload(p)
    \/ Commit(p)
    \/ SyncBranch(p)
    \/ Push(p)
    \/ LoadCommit(p)
    \/ Chdir(p)
    \/ Rmtree(p)
    \/ RefreshCgitListing(p)
    \/ ReleaseAndReturn(p)
    \/ Propagate(p)

Spec == Init /\ [][Next]_vars

----------------------------------------------------------------------------
\* Vocabulary of the claims

\* The statements of import_package between the acquisition of the lock and
\* its release.
BodyPcs == {"get_pkg_info", "setup_git_package", "mkbranch", "clone",
            "git_config", "switch_branch", "add_content", "upload", "commit",
            "sync_branch", "push", "load_commit", "chdir", "rmtree",
            "refresh_cgit_listing", "release"}

InBody(p) == pc[p] \in BodyPcs

\* The call has left import_package, with a result or with an exception.
Terminated(p) == pc[p] \in {"done", "failed"}

\* The call has run the whole loop and is about to release the lock and
\* return branch_commits.
Returning(p) == pc[p] = "release"

Keys(p) == Range(branch_commits[p])

\* The statements at which the four fatal conditions are raised.
FatalPcs == {"acquire", "get_pkg_info", "setup_git_package", "mkbranch", "clone"}

\* The statements of the content step of one branch.
ContentPcs == {"add_content", "upload", "commit", "sync_branch"}

\* Branches whose turn is over.
Processed(p) == hist[p].raised \cup hist[p].pushFailed \cup hist[p].recorded

\* The statements of the loop over branches and of what follows it.
LoopPcs == {"switch_branch", "add_content", "upload", "commit", "sync_branch",
            "push", "load_commit", "chdir", "rmtree", "refresh_cgit_listing",
            "release"}

\* Position of branch b in the branches argument of call p.
Idx(p, b) == CHOOSE k \in 1..Len(branches[p]) : branches[p][k] = b

----------------------------------------------------------------------------
\* C1: whenever a call that acquired the lock has terminated (result or
\* exception), that call no longer holds the import lock.
C1_LockReleasedOnExit ==
    \A p \in Procs : Terminated(p) => import_lock # p

\* C2: at most one call is between lock acquisition and lock release; while
\* one is, it holds the lock and every other call is not started, waiting,
\* over, or failing on the lock timeout.
C2_MutualExclusion ==
    \A p, q \in Procs :
        (p # q /\ InBody(p)) =>
            /\ ~InBody(q)
            /\ import_lock = p
            /\ (pc[q] = "raise" => hist[q].lock = "timeout")

\* C2 witness: a call that waited while another held the lock now runs the
\* body itself, after the first has returned, and is pushing.
C2_Witness ==
    \E p, q \in Procs :
        /\ p # q
        /\ pc[p] = "push"
        /\ import_lock = p
        /\ pc[q] = "done"

\* C3: a failed push does not abort the call; the branch gets no entry, the
\* branches recorded before keep theirs, and when the result is returned
\* every branch of the list has had its turn.
C3_PushFailureIsolated ==
    \A p \in Procs :
        /\ exc[p].at # "push"
        /\ hist[p].pushFailed \cap Keys(p) = {}
        /\ hist[p].recorded \subseteq Keys(p)
        /\ (Returning(p) /\ hist[p].pushFailed # {}) =>
               Processed(p) = Range(branches[p])

\* C3 witness: the push of B failed, A and C are in the result.
C3_Witness ==
    \E p \in Procs :
        /\ Returning(p)
        /\ hist[p].pushFailed = {"B"}
        /\ branch_commits[p] = <<"A", "C">>

\* C4: a branch whose staging, upload, commit or sync raised an exception
\* (other than the tolerated "nothing to commit") is not pushed and gets no
\* entry, and the exception does not end the call.
C4_ContentFailureSkips ==
    \A p \in Procs :
        /\ (hist[p].raised \cup hist[p].commitFailed)
               \cap (hist[p].pushed \cup Keys(p)) = {}
        /\ exc[p].at \notin ContentPcs

\* C5: in a returned result, the keys of branch_commits are exactly the
\* requested branches whose content was committed or synced and whose push
\* succeeded.
C5_KeysAreExactlyTheImported ==
    \A p \in Procs :
        Returning(p) =>
            /\ Keys(p) \subseteq Range(branches[p])
            /\ Keys(p) = ((hist[p].staged \cup hist[p].synced)
                              \ (hist[p].raised \cup hist[p].commitFailed))
                         \cap (hist[p].pushed \ hist[p].pushFailed)

\* C6: a call raises only at one of the four fatal conditions (lock timeout,
\* missing name, provisioning failure, clone failure), with
\* PackageImportException; nothing after the clone aborts it.
C6_OnlyFourFatal ==
    \A p \in Procs :
        pc[p] = "raise" =>
            /\ exc[p].at \in FatalPcs
            /\ exc[p].type = "PackageImportException"

\* C7: after a call has terminated, the directory it made with mkdtemp does
\* not exist.
C7_RepoDirRemovedOnExit ==
    \A p \in Procs : Terminated(p) => repo_dir[p] # "exists"

\* C8: a call whose lock acquisition timed out raises PackageImportException
\* and has run no provisioning command, made no directory, cloned, committed
\* or pushed nothing.
C8_TimeoutChangesNothing ==
    \A p \in Procs :
        hist[p].lock = "timeout" =>
            /\ pc[p] = "raise"
            /\ exc[p] = [type |-> "PackageImportException", at |-> "acquire"]
            /\ hist[p].did = {}
            /\ repo_dir[p] = "none"
            /\ cwd[p] = "oldpath"
            /\ branch_commits[p] = <<>>

\* C8 witness: a call times out while the holder of the lock has pushed.
C8_Witness ==
    \E p, q \in Procs :
        /\ hist[p].lock = "timeout"
        /\ pc[p] = "raise"
        /\ "push" \in hist[q].did

\* C9: a call whose spec file yields no package name raises
\* PackageImportException having run no provisioning command and having
\* cloned, committed and pushed nothing.
C9_MissingNameIsFatal ==
    \A p \in Procs :
        hist[p].pkg_name = "" =>
            /\ pc[p] = "raise"
            /\ exc[p] = [type |-> "PackageImportException", at |-> "get_pkg_info"]
            /\ hist[p].did = {}
            /\ repo_dir[p] = "none"
            /\ branch_commits[p] = <<>>

\* C9 witness: a call that holds the lock has found no package name.
C9_Witness ==
    \E p \in Procs :
        /\ hist[p].pkg_name = ""
        /\ hist[p].lock = "acquired"
        /\ pc[p] = "raise"

\* C10 as claimed: in every execution only the first branch of the list is
\* staged directly, and the first branch is never handed to sync_branch.
C10_OnlyFirstStaged ==
    \A p \in Procs :
        Len(branches[p]) > 0 =>
            /\ hist[p].staged \subseteq {branches[p][1]}
            /\ branches[p][1] \notin hist[p].synced

\* C10 amended: once the first branch of the list has its entry in
\* branch_commits, it is the only branch staged directly; the others are
\* handed to sync_branch and never staged.
C10_FirstStagedWhenRecorded ==
    \A p \in Procs :
        (Len(branches[p]) > 0 /\ branches[p][1] \in Keys(p)) =>
            /\ hist[p].staged = {branches[p][1]}
            /\ branches[p][1] \notin hist[p].synced
            /\ Returning(p) => hist[p].synced = Range(branches[p]) \ {branches[p][1]}

\* C10 witness: [A, B, C] with A seeded and B, C synced.
C10_Witness ==
    \E p \in Procs :
        /\ Returning(p)
        /\ branches[p] = <<"A", "B", "C">>
        /\ branch_commits[p] = <<"A", "B", "C">>
        /\ hist[p].staged = {"A"}
        /\ hist[p].synced = {"B", "C"}

\* C11: branches are processed in the order of the list, none skipped; a
\* branch is staged directly exactly when branch_commits is empty at its
\* turn, and is handed to sync_branch otherwise; entries are in list order.
C11_OrderAndSeedRule ==
    \A p \in Procs :
        pc[p] \in LoopPcs =>
            LET keys == Keys(p)
                n == Len(branches[p])
                at == [k \in 1..Len(branch_commits[p]) |-> Idx(p, branch_commits[p][k])]
            IN  /\ pc[p] \in {"add_content", "upload", "commit"} => keys = {}
                /\ pc[p] = "sync_branch" => keys # {}
                /\ \A k \in 1..n :
                      /\ branches[p][k] \in hist[p].staged =>
                            \A m \in 1..(k - 1) : branches[p][m] \notin keys
                      /\ branches[p][k] \in hist[p].synced =>
                            \E m \in 1..(k - 1) : branches[p][m] \in keys
                /\ \A k \in 1..(Len(at) - 1) : at[k] < at[k + 1]
                /\ Processed(p) = { branches[p][k] : k \in 1..(i[p] - 1) }

\* C11 witness: A was skipped, so B was staged directly at its turn, and C,
\* coming after B's entry, was handed to sync_branch.
C11_Witness ==
    \E p \in Procs :
        /\ Returning(p)
        /\ branch_commits[p] = <<"B", "C">>
        /\ hist[p].staged = {"A", "B"}
        /\ hist[p].synced = {"C"}

\* C17: from the clone on, the repository and every requested branch exist
\* on the remote side.
C17_ProvisionedBeforeClone ==
    \A p \in Procs :
        pc[p] \in {"clone", "git_config"} \cup LoopPcs =>
            /\ remoteRepo
            /\ Range(branches[p]) \subseteq remoteBranches

\* C17 witness: a call checks out a branch of [A, B, C] after an earlier call
\* has returned: some of what it needs was confirmed existing, not created.
C17_Witness ==
    \E p, q \in Procs :
        /\ pc[q] = "done"
        /\ pc[p] = "switch_branch"
        /\ branches[p] = <<"A", "B", "C">>

\* C20: whatever way the listing refresh fails, no exception leaves
\* refresh_cgit_listing, and the call goes on to release the lock.
C20_RefreshNeverPropagates ==
    \A p \in Procs : exc[p].at # "refresh_cgit_listing"

\* C21: a seed branch whose commit failed for another reason than "nothing
\* to commit" is not pushed and gets no entry in branch_commits.
C21_CommitFailureSkipsBranch ==
    \A p \in Procs :
        hist[p].commitFailed \cap (hist[p].pushed \cup Keys(p)) = {}

\* C22: while a call runs, a step leaves the entries of branch_commits in
\* place and at most appends one, for the branch being processed; every key
\* is a requested branch.
C22_BranchCommitsMonotone ==
    [][branch_commits' # branch_commits =>
          \A p \in Procs :
              (branch_commits'[p] # branch_commits[p]
                  /\ pc'[p] \notin {"done", "failed"}) =>
                  /\ i[p] \in 1..Len(branches[p])
                  /\ branches'[p] = branches[p]
                  /\ branch_commits'[p] = Append(branch_commits[p], branch(p))]_vars

\* C22 witness: A has its entry, B was skipped by the content step, C was
\* entered after it.
C22_Witness ==
    \E p \in Procs :
        /\ Returning(p)
        /\ branch_commits[p] = <<"A", "C">>
        /\ hist[p].raised = {"B"}

\* C23 as stated: only the first branch of the list reaches the upload.
C23_OnlyFirstBranchUploads ==
    \A p \in Procs : pc[p] = "upload" => i[p] = 1

\* C23, amended: the upload is run only in the staging step of a branch that
\* is processed while branch_commits is empty; once a branch has an entry no
\* branch uploads.
C23_UploadOnlyWhileEmpty ==
    \A p \in Procs :
        /\ pc[p] = "upload" =>
               /\ branch_commits[p] = <<>>
               /\ branch(p) \in hist[p].staged
               /\ hist[p].checked_out = branch(p)
        /\ "upload" \in hist[p].did => hist[p].staged # {}
        /\ (hist[p].staged = {} /\ pc[p] \in LoopPcs) => "upload" \notin hist[p].did

\* C23 witness: A was skipped, the staging step of B is at the upload.
C23_Witness ==
    \E p \in Procs :
        /\ pc[p] = "upload"
        /\ branch(p) = "B"
        /\ hist[p].raised = {"A"}

\* C26: when import_package calls sync_branch, branch_commits is not empty,
\* the branch passed as new_branch is the one just checked out in the
\* clone, which is the working directory, and it has no entry of its own.
C26_SyncPreconditions ==
    \A p \in Procs :
        pc[p] = "sync_branch" =>
            /\ branch_commits[p] # <<>>
            /\ hist[p].checked_out = branch(p)
            /\ cwd[p] = "repo_dir"
            /\ branch(p) \notin Keys(p)

\* C26 witness: sync_branch is called for C with the entries of A and B.
C26_Witness ==
    \E p \in Procs :
        /\ pc[p] = "sync_branch"
        /\ branch(p) = "C"
        /\ branch_commits[p] = <<"A", "B">>

\* C27: no step of import_package, the propagation of a fatal exception
\* included, removes the repository or a branch that exists.
C27_NoRollBack ==
    [][/\ remoteRepo => remoteRepo'
       /\ remoteBranches \subseteq remoteBranches']_vars

\* C27 witness: a call has failed with PackageImportException, and the
\* repository and the branches A and B, created before the failure, exist.
C27_Witness ==
    \E p \in Procs :
        /\ pc[p] = "failed"
        /\ exc[p].type = "PackageImportException"
        /\ \A q \in Procs \ {p} : pc[q] = "idle"
        /\ remoteRepo
        /\ remoteBranches = {"A", "B"}

\* C28: after the loop the working directory is restored first, then the
\* clone directory is removed, then the listing refresh is run, then the
\* lock is released and the result returned.
C28_ClosingOrder ==
    \A p \in Procs :
        /\ pc[p] = "chdir" => (cwd[p] = "repo_dir" /\ repo_dir[p] = "exists")
        /\ pc[p] = "rmtree" => (cwd[p] = "oldpath" /\ repo_dir[p] = "exists")
        /\ pc[p] = "refresh_cgit_listing" =>
               /\ cwd[p] = "oldpath"
               /\ repo_dir[p] = "removed"
               /\ "cgit_pkg_list" \notin hist[p].did
               /\ import_lock = p
        /\ pc[p] = "release" =>
               /\ cwd[p] = "oldpath"
               /\ repo_dir[p] = "removed"
               /\ "cgit_pkg_list" \in hist[p].did
               /\ import_lock = p
        /\ pc[p] = "done" =>
               /\ cwd[p] = "oldpath"
               /\ repo_dir[p] = "removed"
               /\ import_lock # p

\* C28 witness: a call is about to return a result in which A, skipped by
\* the content step, is missing.
C28_Witness ==
    \E p \in Procs :
        /\ Returning(p)
        /\ hist[p].raised = {"A"}
        /\ branch_commits[p] = <<"B">>
        /\ cwd[p] = "oldpath"

\* C29: a call times out on the lock only while another call is running:
\* calls that are over do not keep a later call from acquiring it.
C29_RerunAcquires ==
    \A p \in Procs :
        hist[p].lock = "timeout" =>
            \E q \in Procs \ {p} : import_lock = q /\ ~Terminated(q)

----------------------------------------------------------------------------
\* sync_branch(new_branch, branch_commits, message), command by command,
\* against a model of the clone.
\*
\* The clone (git): commits are numbered 1..Len(git.parent); parent[c] is the
\* parent of commit c (0 for a root commit), tree[c] its tree, date[c] its
\* author date; head[b] is the commit branch b points to; index is the tree
\* held by the index and the working directory.

\* Number of commits in the clone when sync_branch is called.
MaxCommits == 3

\* Trees a commit can have.
Trees == {"t1", "t2"}

\* The branch that is checked out when sync_branch is called.
new_branch == "C"

\* The branches that can have an entry in branch_commits.
SyncedBefore == {"A", "B"}

\* The branch_commits argument: its keys in insertion order, at least one.
BranchCommitsArgs ==
    { <<a>> : a \in SyncedBefore } \cup
    { <<x[1], x[2]>> : x \in { y \in SyncedBefore \X SyncedBefore : y[1] # y[2] } }

\* The clones sync_branch can be called in: any history of MaxCommits
\* commits, any heads, a clean index (new_branch has just been checked out).
Clones ==
    { [parent |-> par, tree |-> tr, date |-> [c \in 1..MaxCommits |-> c],
       head |-> hd, index |-> tr[hd[new_branch]]] :
         par \in { f \in [1..MaxCommits -> 0..MaxCommits] :
                      \A c \in 1..MaxCommits : f[c] < c },
         tr \in [1..MaxCommits -> Trees],
         hd \in [SyncedBefore \cup {new_branch} -> 1..MaxCommits] }

\* Commit a is commit c or one of its ancestors.
RECURSIVE IsAncestor(_, _, _)
IsAncestor(g, a, c) ==
    IF c = 0 THEN FALSE
    ELSE IF a = c THEN TRUE
    ELSE IsAncestor(g, a, g.parent[c])

\* git merge b --ff-only is possible: b is already contained in the
\* checked-out branch, or the checked-out branch is contained in b.
CanFastForward(g, b) ==
    \/ IsAncestor(g, g.head[b], g.head[new_branch])
    \/ IsAncestor(g, g.head[new_branch], g.head[b])

\* Exit code of git merge b --ff-only.
MergeExit(g, b) == IF CanFastForward(g, b) THEN 0 ELSE 128

\* The clone after git merge b --ff-only.
MergeResult(g, b) ==
    IF IsAncestor(g, g.head[b], g.head[new_branch]) THEN g
    ELSE IF IsAncestor(g, g.head[new_branch], g.head[b])
         THEN [g EXCEPT !.head[new_branch] = g.head[b],
                        !.index = g.tree[g.head[b]]]
         ELSE g

\* git show -q --format=%ai prints the author date and a newline.
FormatAi(d) == <<d, "\n">>

\* git commit --date reads the date and skips the white space after it.
ParseDate(text) == text[1]

\* Exit code of git diff --cached --exit-code: 1 when the index differs from
\* the tree of HEAD.
DiffCachedExit(g) == IF g.index # g.tree[g.head[new_branch]] THEN 1 ELSE 0

\* The clone after git commit --date d: a new commit on the checked-out branch.
CommitResult(g, d) ==
    [g EXCEPT !.parent = Append(@, g.head[new_branch]),
              !.tree = Append(@, g.index),
              !.date = Append(@, d),
              !.head[new_branch] = Len(g.parent) + 1]

\* sync_branch has run the command cmd with argument arg; rc is its exit code.
Ran(cmd, arg, rc) == Append(sb.log, [cmd |-> cmd, arg |-> arg, rc |-> rc])

\* Mutant of FirstBranch: the variable branch as the for-loop left it.
FirstBranch_LoopVariable == sb.branch_commits[Len(sb.branch_commits)]

\* branch = next(iter(branch_commits))
FirstBranch == sb.branch_commits[1]

SyncInit ==
    /\ ImportIdle
    /\ sg = NoSg
    /\ lookaside = NoLookaside
    /\ gid = "user"
    /\ up = NoUp
    /\ build = NoBuild
    /\ git \in Clones
    /\ \E bc \in BranchCommitsArgs :
          sb = [pc |-> "merge", k |-> 1, branch_commits |-> bc, date |-> <<>>,
                log |-> <<>>, git0 |-> git]

\* Mutant of GitMerge: a successful merge does not end the function.
GitMerge_NoReturn ==
    /\ sb.pc = "merge"
    /\ LET b == sb.branch_commits[sb.k]
           rc == MergeExit(git, b)
       IN  /\ git' = MergeResult(git, b)
           /\ sb' = [sb EXCEPT !.log = Ran("merge", b, rc),
                               !.k = @ + 1,
                               !.pc = IF sb.k < Len(sb.branch_commits)
                                      THEN "merge" ELSE "read_tree"]
    /\ UNCHANGED <<importVars, sg, lookaside, gid, up, build>>

\* One turn of the for-loop: git merge branch --ff-only; exit code 0 ends
\* sync_branch.
GitMerge ==
    /\ sb.pc = "merge"
    /\ LET b == sb.branch_commits[sb.k]
           rc == MergeExit(git, b)
       IN  /\ git' = MergeResult(git, b)
           /\ sb' = [sb EXCEPT !.log = Ran("merge", b, rc),
                               !.k = IF rc = 0 THEN @ ELSE @ + 1,
                               !.pc = IF rc = 0 THEN "returned"
                                      ELSE IF sb.k < Len(sb.branch_commits)
                                           THEN "merge" ELSE "read_tree"]
    /\ UNCHANGED <<importVars, sg, lookaside, gid, up, build>>

\* Mutant of GitReadTree: the exit code of git read-tree is not looked at.
GitReadTree_Unchecked ==
    /\ sb.pc = "read_tree"
    /\ \E rc \in {0, 128} :
          /\ git' = IF rc = 0
                    THEN [git EXCEPT !.index = git.tree[git.head[FirstBranch]]]
                    ELSE git
          /\ sb' = [sb EXCEPT !.log = Ran("read-tree", FirstBranch, rc),
                              !.pc = "show"]
    /\ UNCHANGED <<importVars, sg, lookaside, gid, up, build>>

\* subprocess.check_call(['git', 'read-tree', '-m', '-u', branch]): index and
\* working directory take the tree of branch; a non-zero exit raises.
GitReadTree ==
    /\ sb.pc = "read_tree"
    /\ \E rc \in {0, 128} :
          IF rc = 0
          THEN /\ git' = [git EXCEPT !.index = git.tree[git.head[FirstBranch]]]
               /\ sb' = [sb EXCEPT !.log = Ran("read-tree", FirstBranch, rc),
                                   !.pc = "show"]
          ELSE /\ git' = git
               /\ sb' = [sb EXCEPT !.log = Ran("read-tree", FirstBranch, rc),
                                   !.pc = "raised"]
    /\ UNCHANGED <<importVars, sg, lookaside, gid, up, build>>

\* date = subprocess.check_output(['git', 'show', branch, '-q', '--format=%ai'])
GitShow ==
    /\ sb.pc = "show"
    /\ \E rc \in {0, 128} :
          IF rc = 0
          THEN sb' = [sb EXCEPT !.log = Ran("show", FirstBranch, rc),
                                !.date = FormatAi(git.date[git.head[FirstBranch]]),
                                !.pc = "diff"]
          ELSE sb' = [sb EXCEPT !.log = Ran("show", FirstBranch, rc),
                                !.pc = "raised"]
    /\ UNCHANGED <<git, importVars, sg, lookaside, gid, up, build>>

\* Mutant of GitDiffCached: the commit is made whatever the exit code.
GitDiffCached_AlwaysCommit ==
    /\ sb.pc = "diff"
    /\ sb' = [sb EXCEPT !.log = Ran("diff", "-", DiffCachedExit(git)),
                        !.pc = "commit"]
    /\ UNCHANGED <<git, importVars, sg, lookaside, gid, up, build>>

\* if subprocess.call(['git', 'diff', '--cached', '--exit-code']): ... else:
\* "nothing to commit", and the function ends.
GitDiffCached ==
    /\ sb.pc = "diff"
    /\ LET rc == DiffCachedExit(git)
       IN  sb' = [sb EXCEPT !.log = Ran("diff", "-", rc),
                            !.pc = IF rc # 0 THEN "commit" ELSE "returned"]
    /\ UNCHANGED <<git, importVars, sg, lookaside, gid, up, build>>

\* subprocess.check_call(['git', 'commit', '--no-verify', '-m', message,
\* '--date', date]); a non-zero exit raises.
GitCommit ==
    /\ sb.pc = "commit"
    /\ \E rc \in {0, 1} :
          IF rc = 0
          THEN /\ git' = CommitResult(git, ParseDate(sb.date))
               /\ sb' = [sb EXCEPT !.log = Ran("commit", "-", rc),
                                   !.pc = "returned"]
          ELSE /\ git' = git
               /\ sb' = [sb EXCEPT !.log = Ran("commit", "-", rc),
                                   !.pc = "raised"]
    /\ UNCHANGED <<importVars, sg, lookaside, gid, up, build>>

SyncNext ==
    \/ GitMerge
    \/ GitReadTree
    \/ GitShow
    \/ GitDiffCached
    \/ GitCommit

SpecSync == SyncInit /\ [][SyncNext]_vars

\* Some branch of branch_commits could be fast-forward merged when
\* sync_branch was called.
SomeFastForward == \E b \in Range(sb.branch_commits) : CanFastForward(sb.git0, b)

\* The commands sync_branch has run.
CmdsRun == { sb.log[n].cmd : n \in 1..Len(sb.log) }

\* sync_branch has created a commit.
CommitCreated == Len(git.parent) > Len(sb.git0.parent)

\* C12: when some branch of branch_commits can be fast-forward merged,
\* sync_branch runs merges only, never raises, and returns right after a
\* merge that succeeded, with the checked-out branch containing that branch.
C12_FastForwardPreferred ==
    SomeFastForward =>
        /\ CmdsRun \subseteq {"merge"}
        /\ sb.pc \in {"merge", "returned"}
        /\ ~CommitCreated
        /\ sb.pc = "returned" =>
              LET last == sb.log[Len(sb.log)]
              IN  /\ last.rc = 0
                  /\ IsAncestor(git, sb.git0.head[last.arg], git.head[new_branch])
                  /\ git.index = git.tree[git.head[new_branch]]

\* C12 witness: the first entry was rejected, the second one moved the
\* checked-out branch forward.
C12_Witness ==
    /\ sb.pc = "returned"
    /\ Len(sb.log) = 2
    /\ sb.log[2].rc = 0
    /\ git.head[new_branch] # sb.git0.head[new_branch]

\* C13: when no branch can be fast-forward merged and sync_branch returns,
\* the checked-out branch has the tree of the first entry of branch_commits,
\* and a commit it created has the author date of that entry's commit.
C13_ResetToFirstEntry ==
    (~SomeFastForward /\ sb.pc = "returned") =>
        LET first == sb.git0.head[sb.branch_commits[1]]
        IN  /\ git.tree[git.head[new_branch]] = sb.git0.tree[first]
            /\ git.index = sb.git0.tree[first]
            /\ CommitCreated =>
                  /\ git.date[git.head[new_branch]] = sb.git0.date[first]
                  /\ git.parent[git.head[new_branch]] = sb.git0.head[new_branch]

\* C13 witness: two entries with different trees, a commit was created.
C13_Witness ==
    /\ sb.pc = "returned"
    /\ CommitCreated
    /\ Len(sb.branch_commits) = 2
    /\ sb.git0.tree[sb.git0.head[sb.branch_commits[1]]] #
          sb.git0.tree[sb.git0.head[sb.branch_commits[2]]]

\* C14: in the fallback, when the index does not differ from HEAD after the
\* reset, git diff exits with 0, no commit is attempted or created, and
\* sync_branch returns.
C14_NoSpuriousCommit ==
    \A n \in 1..Len(sb.log) :
        sb.log[n].cmd = "diff" =>
            /\ sb.log[n].rc = 0 <=>
                  sb.git0.tree[sb.git0.head[sb.branch_commits[1]]] =
                      sb.git0.tree[sb.git0.head[new_branch]]
            /\ sb.log[n].rc = 0 =>
                  /\ sb.pc = "returned"
                  /\ "commit" \notin CmdsRun
                  /\ ~CommitCreated

\* C14 witness: sync_branch has returned after a git diff that found nothing.
C14_Witness ==
    /\ sb.pc = "returned"
    /\ sb.log[Len(sb.log)].cmd = "diff"
    /\ sb.log[Len(sb.log)].rc = 0

\* C24: the merges are tried on the keys of branch_commits in insertion
\* order, each one after rejected merges only; a merge that succeeds is on
\* the first key that can be fast-forward merged, it is the last command of
\* the call, and the call returns.
C24_FirstMatch ==
    \A n \in 1..Len(sb.log) :
        sb.log[n].cmd = "merge" =>
            /\ n <= Len(sb.branch_commits)
            /\ sb.log[n].arg = sb.branch_commits[n]
            /\ \A m \in 1..(n - 1) :
                  /\ sb.log[m].cmd = "merge"
                  /\ sb.log[m].rc # 0
                  /\ ~CanFastForward(sb.git0, sb.branch_commits[m])
            /\ sb.log[n].rc = 0 => (n = Len(sb.log) /\ sb.pc = "returned")

\* C24 witness: the merge of the first key succeeded and the second key,
\* which could be merged too, was not tried.
C24_Witness ==
    /\ sb.pc = "returned"
    /\ Len(sb.branch_commits) = 2
    /\ Len(sb.log) = 1
    /\ sb.log[1].rc = 0
    /\ CanFastForward(sb.git0, sb.branch_commits[2])

----------------------------------------------------------------------------
\* setup_git_repo(reponame, branches) on its own, called again and again
\* for one repository name.
\*
\* sg: branches is the argument, j the position of the for-loop, log the
\* provisioning commands of this call with their exit codes, exc the
\* exception of a call that raised; calls counts the calls, succeeded holds
\* the branch lists of the calls that returned, again says that an earlier
\* call with the same branch list returned, remote0 is the remote side as
\* this call found it.

\* Number of calls of setup_git_repo.
MaxSetupCalls == 2

SetupInit ==
    /\ ImportIdle
    /\ git = NoGit
    /\ sb = NoSb
    /\ lookaside = NoLookaside
    /\ gid = "user"
    /\ up = NoUp
    /\ build = NoBuild
    /\ sg = NoSg

\* The provisioning command cmd has been run on arg and has exited with rc.
Provisioned(cmd, arg, rc) == Append(sg.log, [cmd |-> cmd, arg |-> arg, rc |-> rc])

\* Where setup_git_repo goes after a command that counts as a success: to
\* the mkbranch of branch number k, or out of the function.
SetupGoOn(k) ==
    IF k <= Len(sg.branches)
    THEN [pc |-> "mkbranch", succeeded |-> sg.succeeded]
    ELSE [pc |-> "returned", succeeded |-> sg.succeeded \cup {sg.branches}]

\* A caller invokes setup_git_repo(reponame, branches).
CallSetupGitRepo ==
    /\ sg.pc \in {"idle", "returned", "raised"}
    /\ sg.calls < MaxSetupCalls
    /\ \E brs \in BranchLists :
          sg' = [sg EXCEPT !.pc = "setup_git_package",
                           !.branches = brs,
                           !.j = 0,
                           !.calls = @ + 1,
                           !.log = <<>>,
                           !.exc = "none",
                           !.again = (brs \in sg.succeeded),
                           !.remote0 = [repo |-> remoteRepo,
                                        branches |-> remoteBranches]]
    /\ UNCHANGED <<import_lock, pc, branches, i, branch_commits, exc, repo_dir,
                   cwd, remoteRepo, remoteBranches, hist>>
    /\ UNCHANGED <<git, sb, lookaside, gid, up, build>>

\* Mutant of RunSetupGitPackage: exit code 128 is a failure like any other.
RunSetupGitPackage_128Fatal ==
    /\ sg.pc = "setup_git_package"
    /\ \E rc \in ProvisionExit(remoteRepo) :
          /\ remoteRepo' = (remoteRepo \/ rc = 0)
          /\ IF rc = 0
             THEN sg' = [sg EXCEPT !.log = Provisioned("setup_git_package", "-", rc),
                                   !.j = 1,
                                   !.pc = SetupGoOn(1).pc,
                                   !.succeeded = SetupGoOn(1).succeeded]
             ELSE sg' = [sg EXCEPT !.log = Provisioned("setup_git_package", "-", rc),
                                   !.pc = "raised",
                                   !.exc = "PackageImportException"]
    /\ UNCHANGED <<import_lock, pc, branches, i, branch_commits, exc, repo_dir,
                   cwd, remoteBranches, hist>>
    /\ UNCHANGED <<git, sb, lookaside, gid, up, build>>

\* /usr/share/dist-git/setup_git_package reponame: CalledProcessError with
\* returncode 128 is logged, any other one becomes PackageImportException.
RunSetupGitPackage ==
    /\ sg.pc = "setup_git_package"
    /\ \E rc \in ProvisionExit(remoteRepo) :
          /\ remoteRepo' = (remoteRepo \/ rc = 0)
          /\ IF rc \in {0, 128}
             THEN sg' = [sg EXCEPT !.log = Provisioned("setup_git_package", "-", rc),
                                   !.j = 1,
                                   !.pc = SetupGoOn(1).pc,
                                   !.succeeded = SetupGoOn(1).succeeded]
             ELSE sg' = [sg EXCEPT !.log = Provisioned("setup_git_package", "-", rc),
                                   !.pc = "raised",
                                   !.exc = "PackageImportException"]
    /\ UNCHANGED <<import_lock, pc, branches, i, branch_commits, exc, repo_dir,
                   cwd, remoteBranches, hist>>
    /\ UNCHANGED <<git, sb, lookaside, gid, up, build>>

\* Mutant of RunMkBranch: a failing mkbranch is logged and the loop goes on.
RunMkBranch_KeepGoing ==
    /\ sg.pc = "mkbranch"
    /\ LET b == sg.branches[sg.j]
       IN  \E rc \in ProvisionExit(b \in remoteBranches) :
              /\ remoteBranches' = IF rc = 0 THEN remoteBranches \cup {b}
                                             ELSE remoteBranches
              /\ sg' = [sg EXCEPT !.log = Provisioned("mkbranch", b, rc),
                                  !.j = @ + 1,
                                  !.pc = SetupGoOn(sg.j + 1).pc,
                                  !.succeeded = SetupGoOn(sg.j + 1).succeeded]
    /\ UNCHANGED <<import_lock, pc, branches, i, branch_commits, exc, repo_dir,
                   cwd, remoteRepo, hist>>
    /\ UNCHANGED <<git, sb, lookaside, gid, up, build>>

\* One turn of the for-loop: /usr/share/dist-git/mkbranch branch reponame,
\* with the same handling of the exit code.
RunMkBranch ==
    /\ sg.pc = "mkbranch"
    /\ LET b == sg.branches[sg.j]
       IN  \E rc \in ProvisionExit(b \in remoteBranches) :
              /\ remoteBranches' = IF rc = 0 THEN remoteBranches \cup {b}
                                             ELSE remoteBranches
              /\ IF rc \in {0, 128}
                 THEN sg' = [sg EXCEPT !.log = Provisioned("mkbranch", b, rc),
                                       !.j = @ + 1,
                                       !.pc = SetupGoOn(sg.j + 1).pc,
                                       !.succeeded = SetupGoOn(sg.j + 1).succeeded]
                 ELSE sg' = [sg EXCEPT !.log = Provisioned("mkbranch", b, rc),
                                       !.pc = "raised",
                                       !.exc = "PackageImportException"]
    /\ UNCHANGED <<import_lock, pc, branches, i, branch_commits, exc, repo_dir,
                   cwd, remoteRepo, hist>>
    /\ UNCHANGED <<git, sb, lookaside, gid, up, build>>

SetupNext ==
    \/ CallSetupGitRepo
    \/ RunSetupGitPackage
    \/ RunMkBranch

SpecSetup == SetupInit /\ [][SetupNext]_vars

\* Exit codes of the commands this call of setup_git_repo has run.
SetupCodes == { sg.log[n].rc : n \in 1..Len(sg.log) }

\* C15: in a call of setup_git_repo made after a call with the same branch
\* list has returned, every command finds what it should create (no exit
\* code 0), exit code 128 never makes the call fail, a call whose commands
\* all report "already exists" returns, and the repository and the set of
\* branches stay as the call found them.
C15_SecondCallIdempotent ==
    sg.again =>
        /\ 0 \notin SetupCodes
        /\ sg.pc = "raised" => sg.log[Len(sg.log)].rc # 128
        /\ (sg.pc \notin {"setup_git_package", "mkbranch"} /\ SetupCodes = {128})
              => sg.pc = "returned"
        /\ remoteRepo = sg.remote0.repo
        /\ remoteBranches = sg.remote0.branches

\* C15 witness: the second call with [A, B, C] has returned, every command
\* having reported "already exists".
C15_Witness ==
    /\ sg.again
    /\ sg.pc = "returned"
    /\ sg.branches = <<"A", "B", "C">>
    /\ Len(sg.log) = 4
    /\ SetupCodes = {128}

\* C16: the commands are run in order, each one after commands that exited
\* with 0 or 128 only; a call raises, with PackageImportException, exactly
\* when its last command exited with another code, and returns only after
\* the repository command and one mkbranch per branch.
C16_OnlyNon128Aborts ==
    /\ \A n \in 1..Len(sg.log) :
          /\ n < Len(sg.log) => sg.log[n].rc \in {0, 128}
          /\ sg.log[n].cmd = IF n = 1 THEN "setup_git_package" ELSE "mkbranch"
          /\ n > 1 => sg.log[n].arg = sg.branches[n - 1]
    /\ sg.pc = "raised" <=>
          (sg.log # <<>> /\ sg.log[Len(sg.log)].rc \notin {0, 128})
    /\ sg.pc = "raised" <=> sg.exc = "PackageImportException"
    /\ sg.pc = "returned" => Len(sg.log) = 1 + Len(sg.branches)

\* C16 witness: the repository and branch A were reported as existing, the
\* mkbranch of B failed, and no mkbranch was run for C.
C16_Witness ==
    /\ sg.pc = "raised"
    /\ sg.branches = <<"A", "B", "C">>
    /\ Len(sg.log) = 3
    /\ sg.log[1].rc = 128
    /\ sg.log[2].rc = 128
    /\ sg.log[3].rc = 1

----------------------------------------------------------------------------
\* my_upload(repo_dir, reponame, abs_filename, filehash), the upload function
\* my_upload_fabric(opts) returns, called again and again in one process.
\*
\* up: destination is the local of that name, current_gid the gid read at
\* line 45; calls counts the calls, done holds the destinations of the calls
\* that returned, again says that an earlier call for the same destination
\* returned, gid0 and files0 are the gid of the process and the files of the
\* lookaside cache as this call found them.

\* Number of calls of my_upload.
MaxUploads == 3

\* The one repository the sources belong to.
reponame == "ns/pkg"

\* Source files, as lists of path components: two of them share a basename.
AbsFilenames == { <<"tmp", "x", "a.tar.gz">>, <<"tmp", "y", "a.tar.gz">>,
                  <<"tmp", "x", "b.tar.gz">> }

Filehashes == {"h1", "h2"}

\* os.path.basename(abs_filename)
Basename(path) == path[Len(path)]

\* os.path.join(opts.lookaside_location, reponame, filename, filehash, filename)
Destination(name, abs_filename, filehash) ==
    <<"lookaside", name, Basename(abs_filename), filehash, Basename(abs_filename)>>

\* os.path.dirname(destination)
Dirname(path) == SubSeq(path, 1, Len(path) - 1)

\* os.path.exists(path), for the path of a file
Exists(path) == \E f \in lookaside.files : f[1] = path

\* The lookaside cache after shutil.copyfile has written path; stamp tells
\* which call wrote it.
Written(path, stamp) ==
    [lookaside EXCEPT !.files = { f \in @ : f[1] # path } \cup {<<path, stamp>>}]

UploadInit ==
    /\ ImportIdle
    /\ git = NoGit
    /\ sb = NoSb
    /\ sg = NoSg
    /\ lookaside = NoLookaside
    /\ gid = "user"
    /\ up = NoUp
    /\ build = NoBuild

\* rpkg calls lookasidecache.upload(reponame, abs_filename, filehash).
CallMyUpload ==
    /\ up.pc \in {"idle", "returned", "raised"}
    /\ up.calls < MaxUploads
    /\ \E f \in AbsFilenames, h \in Filehashes :
          up' = [up EXCEPT !.pc = "setgid",
                           !.destination = Destination(reponame, f, h),
                           !.calls = @ + 1,
                           !.current_gid = "-",
                           !.gid0 = gid,
                           !.again = (Destination(reponame, f, h) \in up.done),
                           !.files0 = lookaside.files]
    /\ UNCHANGED <<importVars, git, sb, sg, lookaside, gid, build>>

\* current_gid = os.getgid(); os.setgid(apache_gid); then the isdir test.
SetGid ==
    /\ up.pc = "setgid"
    /\ gid' = "apache"
    /\ up' = [up EXCEPT !.current_gid = gid,
                        !.pc = IF Dirname(up.destination) \in lookaside.dirs
                               THEN "copyfile" ELSE "makedirs"]
    /\ UNCHANGED <<importVars, git, sb, sg, lookaside, build>>

\* os.makedirs(os.path.dirname(destination)); its OSError is logged only.
MakeDirs ==
    /\ up.pc = "makedirs"
    /\ \E ok \in BOOLEAN :
          lookaside' = IF ok THEN [lookaside EXCEPT !.dirs = @ \cup {Dirname(up.destination)}]
                             ELSE lookaside
    /\ up' = [up EXCEPT !.pc = "copyfile"]
    /\ UNCHANGED <<importVars, git, sb, sg, gid, build>>

\* Mutant of CopyFile: the file is copied whether or not it is there.
CopyFile_Unconditional ==
    /\ up.pc = "copyfile"
    /\ IF Dirname(up.destination) \in lookaside.dirs
       THEN /\ lookaside' = Written(up.destination, up.calls)
            /\ up' = [up EXCEPT !.pc = "restore"]
       ELSE /\ lookaside' = lookaside
            /\ up' = [up EXCEPT !.pc = "raised"]
    /\ UNCHANGED <<importVars, git, sb, sg, gid, build>>

\* if not os.path.exists(destination): shutil.copyfile(abs_filename,
\* destination).  The copy raises when the directory is not there or when
\* reading or writing fails; it may then leave a truncated file behind.
CopyFile ==
    /\ up.pc = "copyfile"
    /\ IF Exists(up.destination)
       THEN /\ lookaside' = lookaside
            /\ up' = [up EXCEPT !.pc = "restore"]
       ELSE IF Dirname(up.destination) \notin lookaside.dirs
       THEN /\ lookaside' = lookaside
            /\ up' = [up EXCEPT !.pc = "raised"]
       ELSE \E res \in {"ok", "failed", "truncated"} :
               /\ lookaside' = IF res = "ok" THEN Written(up.destination, up.calls)
                               ELSE IF res = "truncated" THEN Written(up.destination, 0)
                               ELSE lookaside
               /\ up' = [up EXCEPT !.pc = IF res = "ok" THEN "restore" ELSE "raised"]
    /\ UNCHANGED <<importVars, git, sb, sg, gid, build>>

\* os.setgid(current_gid), and the function returns.
RestoreGid ==
    /\ up.pc = "restore"
    /\ gid' = up.current_gid
    /\ up' = [up EXCEPT !.pc = "returned", !.done = @ \cup {up.destination}]
    /\ UNCHANGED <<importVars, git, sb, sg, lookaside, build>>

UploadNext ==
    \/ CallMyUpload
    \/ SetGid
    \/ MakeDirs
    \/ CopyFile
    \/ RestoreGid

SpecUpload == UploadInit /\ [][UploadNext]_vars

\* C18: a call of my_upload for a destination that an earlier call has
\* uploaded never raises and never writes: the lookaside cache holds the
\* files the call found, among them exactly one for the destination.
C18_SecondUploadSkipsCopy ==
    up.again =>
        /\ up.pc # "raised"
        /\ lookaside.files = up.files0
        /\ Cardinality({ f \in lookaside.files : f[1] = up.destination }) = 1

\* C18 witness: a second call for the same destination has returned.
C18_Witness ==
    /\ up.again
    /\ up.pc = "returned"
    /\ up.calls = 2

\* C19: when my_upload is over, returned or raised, the gid of the process
\* is the gid it had before the call.
C19_GidRestoredOnExit ==
    up.pc \in {"returned", "raised"} => gid = up.gid0

----------------------------------------------------------------------------
\* Build.status and Build.cancelable of the frontend (coprs/models.py), read
\* from a build with any canceled flag and any chroots.
\*
\* build: canceled is the column of that name, build_chroots the statuses of
\* the chroots of the build; status and cancelable hold the values of the
\* two properties once they have been read.

\* Number of chroots of a build.
MaxChroots == 2

\* The statuses a chroot can have.
ChrootStatuses == {"failed", "succeeded", "canceled", "running", "pending",
                   "skipped", "starting", "importing", "forked"}

\* The order in which Build.status looks for a status among the chroots.
StatusOrder == <<"running", "starting", "importing", "pending", "failed",
                 "succeeded", "skipped", "forked">>

\* The builds: a flag and up to MaxChroots chroots.
Builds ==
    { [pc |-> "new", canceled |-> c, build_chroots |-> chroots,
       status |-> "-", cancelable |-> FALSE] :
         c \in BOOLEAN,
         chroots \in UNION { [1..n -> ChrootStatuses] : n \in 0..MaxChroots } }

\* Build.chroot_states: the status of every chroot.
chroot_states(b) == { b.build_chroots[k] : k \in 1..Len(b.build_chroots) }

\* Build.status: canceled for a canceled build, else the first status of
\* StatusOrder some chroot has, else None.
status(b) ==
    IF b.canceled THEN "canceled"
    ELSE LET found == { k \in 1..Len(StatusOrder) : StatusOrder[k] \in chroot_states(b) }
         IN  IF found = {} THEN "None"
             ELSE StatusOrder[CHOOSE k \in found : \A j \in found : k <= j]

\* Build.cancelable
cancelable(b) ==
    \/ status(b) = "pending"
    \/ status(b) = "importing"
    \/ status(b) = "running"

BuildInit ==
    /\ ImportIdle
    /\ git = NoGit
    /\ sb = NoSb
    /\ sg = NoSg
    /\ lookaside = NoLookaside
    /\ gid = "user"
    /\ up = NoUp
    /\ build \in Builds

\* A caller reads build.status.
ReadStatus ==
    /\ build.pc = "new"
    /\ build' = [build EXCEPT !.status = status(build), !.pc = "status"]
    /\ UNCHANGED <<importVars, git, sb, sg, lookaside, gid, up>>

\* A caller reads build.cancelable.
ReadCancelable ==
    /\ build.pc = "status"
    /\ build' = [build EXCEPT !.cancelable = cancelable(build), !.pc = "cancelable"]
    /\ UNCHANGED <<importVars, git, sb, sg, lookaside, gid, up>>

BuildNext ==
    \/ ReadStatus
    \/ ReadCancelable

SpecBuild == BuildInit /\ [][BuildNext]_vars

\* C30: a build is cancelable only if its status is pending.
C30_CancelableOnlyPending ==
    (build.pc = "cancelable" /\ build.cancelable) => build.status = "pending"

====
